---------------------------- MODULE Spec2Model ----------------------------
(***************************************************************************)
(* A model of md2pdf.py: the four text transforms (extract_document_info,  *)
(* normalize_lists, process_arabic_text, extract_mermaid_diagrams) and the *)
(* orchestration of main / convert_to_pdf_mathjax / render_mermaid_diagram.*)
(*                                                                         *)
(* Text is a sequence of tokens.  A token is one character class or one    *)
(* literal the regular expressions of the source look for:                 *)
(*   "\n"  newline             " "   a blank (whitespace other than \n)    *)
(*   "x"   any other character "ar"  a character in U+0600..U+06FF        *)
(*   "FENCE" three backticks   "mermaid" the info string of a diagram      *)
(*   ":" "1" "." "#"           themselves ("1" stands for a digit)         *)
(*   "**Author**:" "**Email**:" the two bolded labels                      *)
(* The regular expressions are modelled by matchers over these tokens that *)
(* follow Python's leftmost, greedy, backtracking semantics.               *)
(***************************************************************************)
EXTENDS Integers, Sequences, FiniteSets, TLC

VARIABLES
    pc,                 \* position of the program (or of the function under study)
    content,            \* the text handed to the function / read from the file
    arabic_font_size,   \* <<>> is None, <<n>> is the integer n
    lines,              \* content.split('\n')
    in_code_block,      \* process_arabic_text's fence flag
    processed_lines,    \* the output lines collected so far
    result,             \* the return value of the function
    image_ext,          \* "svg" or "png"
    diagrams,           \* list of [id, source] collected by replace_diagram
    new_content,        \* re.sub's output built so far
    pos,                \* re.sub's scan position in markdown_content
    info,               \* extract_document_info's return value
    info2,              \* ... of a second call on info.clean_content
    diagram_width,
    diagram_height,
    idx,                \* position of the render loop in diagrams
    calls,              \* external tools run so far: [tool, arg, rc]
    logs,               \* logger.error messages so far
    temp_dir,           \* TRUE while the TemporaryDirectory exists
    files,              \* files that exist: [dir, name]
    pdf,                \* TRUE once the PDF printer has written output_pdf
    exit_code           \* <<>> while running, <<n>> once the process has exited

textVars == <<content, arabic_font_size, lines, in_code_block, processed_lines, result>>
mermaidVars == <<image_ext, diagrams, new_content, pos>>
infoVars == <<info, info2>>
orchVars == <<diagram_width, diagram_height, idx, calls, logs, temp_dir, files, pdf, exit_code>>
vars == <<pc, textVars, mermaidVars, infoVars, orchVars>>

----------------------------------------------------------------------------
(* Bounds of the model. *)

MaxListLen == 6
MaxArabicLen == 6
MaxInfoLen == 6
MaxMermaidLen == 7
MaxBlocks == 3

(* Program constants. *)

DEFAULT_DIAGRAM_WIDTH == 400
DEFAULT_DIAGRAM_HEIGHT == 300

----------------------------------------------------------------------------
(* Tokens and Python's string helpers. *)

NL == "\n"
FENCE == "FENCE"
None == <<>>

\* \s of the regular expressions, and what str.strip() removes
IsSpace(t) == t \in {" ", NL}

\* all sequences over S of length 0..n
SeqsUpTo(S, n) == UNION {[1..k -> S] : k \in 0..n}

RECURSIVE LStrip(_)
LStrip(s) == IF s # <<>> /\ IsSpace(Head(s)) THEN LStrip(Tail(s)) ELSE s

RECURSIVE RStrip(_)
RStrip(s) ==
    IF s # <<>> /\ IsSpace(s[Len(s)]) THEN RStrip(SubSeq(s, 1, Len(s) - 1)) ELSE s

\* str.strip()
Strip(s) == RStrip(LStrip(s))

\* str.startswith(t) for a one-token prefix
StartsWith(s, t) == s # <<>> /\ Head(s) = t

\* s.split('\n'): always at least one line
RECURSIVE Split(_)
Split(s) ==
    IF \A k \in 1..Len(s) : s[k] # NL
    THEN <<s>>
    ELSE LET k == CHOOSE k \in 1..Len(s) :
                      s[k] = NL /\ \A j \in 1..(k - 1) : s[j] # NL
         IN  <<SubSeq(s, 1, k - 1)>> \o Split(SubSeq(s, k + 1, Len(s)))

\* '\n'.join(ls)
RECURSIVE Join(_)
Join(ls) ==
    IF ls = <<>> THEN <<>>
    ELSE IF Len(ls) = 1 THEN ls[1]
    ELSE ls[1] \o <<NL>> \o Join(Tail(ls))

\* length of the longest run of tokens satisfying a class, starting at s[p]
RECURSIVE SpaceRun(_, _)
SpaceRun(s, p) == IF p <= Len(s) /\ IsSpace(s[p]) THEN 1 + SpaceRun(s, p + 1) ELSE 0

RECURSIVE DigitRun(_, _)
DigitRun(s, p) == IF p <= Len(s) /\ s[p] = "1" THEN 1 + DigitRun(s, p + 1) ELSE 0

----------------------------------------------------------------------------
(* normalize_lists *)

\* re.match of r':\s*(\d+\.\s+)' at s[p]: 0 when there is none, else the
\* position just after the match.  No alternative of the pattern overlaps the
\* next, so the greedy match is the only one.
ListMatchEnd(s, p) ==
    IF p > Len(s) \/ s[p] # ":" THEN 0
    ELSE LET q == p + 1 + SpaceRun(s, p + 1)
             d == DigitRun(s, q)
             w == SpaceRun(s, q + d + 1)
         IN  IF d >= 1 /\ q + d <= Len(s) /\ s[q + d] = "." /\ w >= 1
             THEN q + d + 1 + w
             ELSE 0

\* start of group 1 of the match at s[p]
ListGroupStart(s, p) == p + 1 + SpaceRun(s, p + 1)

\* re.sub(r':\s*(\d+\.\s+)', r':\n\n\1', s), scanning from s[p]
RECURSIVE ListSub(_, _)
ListSub(s, p) ==
    IF p > Len(s) THEN <<>>
    ELSE LET e == ListMatchEnd(s, p)
         IN  IF e = 0
             THEN <<s[p]>> \o ListSub(s, p + 1)
             ELSE <<":", NL, NL>> \o SubSeq(s, ListGroupStart(s, p), e - 1)
                      \o ListSub(s, e)

\* line.strip().startswith('#')
IsHeading(line) == StartsWith(Strip(line), "#")

\* NormalizeLine with the heading test made on the untrimmed line
NormalizeLine_NoStrip(line) == IF StartsWith(line, "#") THEN line ELSE ListSub(line, 1)

\* the body of normalize_lists's loop: what is appended for one line
NormalizeLine(line) == IF IsHeading(line) THEN line ELSE ListSub(line, 1)

RECURSIVE NormalizeLines(_)
NormalizeLines(ls) ==
    IF ls = <<>> THEN <<>> ELSE <<NormalizeLine(Head(ls))>> \o NormalizeLines(Tail(ls))

normalize_lists(c) == Join(NormalizeLines(Split(c)))

----------------------------------------------------------------------------
(* process_arabic_text *)

\* Falsy as "arabic_font_size is None"
Falsy_NoneOnly(a) == a = None

\* "not arabic_font_size": None and 0 are both falsy
Falsy(a) == IF a = None THEN TRUE ELSE a[1] = 0

RECURSIVE ArabicRun(_, _)
ArabicRun(s, p) == IF p <= Len(s) /\ s[p] = "ar" THEN 1 + ArabicRun(s, p + 1) ELSE 0

\* re.match of r'[\u0600-\u06FF]+(?:\s*[\u0600-\u06FF]+)*' at s[p], which is
\* an Arabic character: the position just after the match.  The group repeats
\* while blanks are followed by another Arabic run; trailing blanks are given
\* back.
RECURSIVE ArabicMatchEnd(_, _)
ArabicMatchEnd(s, p) ==
    LET e == p + ArabicRun(s, p)
        n == e + SpaceRun(s, e)
    IN  IF n <= Len(s) /\ s[n] = "ar" THEN ArabicMatchEnd(s, n) ELSE e

\* wrap_arabic's markup around one match
SpanOpen(size) ==
    "<span style=\"font-size:" \o ToString(size[1])
        \o "px; font-family:Arial, sans-serif; direction:rtl;\">"
SpanClose == "</span>"

\* re.sub(arabic_pattern, wrap_arabic, s), scanning from s[p]
RECURSIVE ArabicSub(_, _, _)
ArabicSub(s, p, size) ==
    IF p > Len(s) THEN <<>>
    ELSE IF s[p] # "ar" THEN <<s[p]>> \o ArabicSub(s, p + 1, size)
    ELSE LET e == ArabicMatchEnd(s, p)
         IN  <<SpanOpen(size)>> \o SubSeq(s, p, e - 1) \o <<SpanClose>>
                 \o ArabicSub(s, e, size)

\* line.strip().startswith(FENCE)
IsFence(line) == StartsWith(Strip(line), FENCE)

\* ArabicLine without the "continue" of the fence branch: a fence line falls
\* through to the substitution under the toggled flag
ArabicLine_NoContinue(flag, line, size) ==
    IF IsFence(line)
    THEN [flag |-> ~flag, out |-> IF flag THEN ArabicSub(line, 1, size) ELSE line]
    ELSE IF ~flag THEN [flag |-> flag, out |-> ArabicSub(line, 1, size)]
    ELSE [flag |-> flag, out |-> line]

\* the body of process_arabic_text's loop for one line: the new flag and the
\* line appended to processed_lines
ArabicLine(flag, line, size) ==
    IF IsFence(line) THEN [flag |-> ~flag, out |-> line]
    ELSE IF ~flag THEN [flag |-> flag, out |-> ArabicSub(line, 1, size)]
    ELSE [flag |-> flag, out |-> line]

RECURSIVE ArabicLines(_, _, _)
ArabicLines(flag, ls, size) ==
    IF ls = <<>> THEN <<>>
    ELSE LET r == ArabicLine(flag, Head(ls), size)
         IN  <<r.out>> \o ArabicLines(r.flag, Tail(ls), size)

process_arabic_text(c, size) ==
    IF Falsy(size) THEN c ELSE Join(ArabicLines(FALSE, Split(c), size))

----------------------------------------------------------------------------
(* extract_document_info *)

AUTHOR == "**Author**:"
EMAIL == "**Email**:"
NoMatch == [found |-> FALSE, start |-> 0, group |-> 0, end |-> 0]

\* first position >= p holding a newline, or Len(s) + 1: where (.+) stops
RECURSIVE LineEnd(_, _)
LineEnd(s, p) == IF p > Len(s) \/ s[p] = NL THEN p ELSE LineEnd(s, p + 1)

\* re.match of r'<label>\s{least,}(.+)$' (re.MULTILINE) with the label at
\* s[p].  \s also matches a newline, so \s* runs over line breaks; it is
\* greedy and gives blanks back until (.+) finds a character that is not a
\* newline.  (.+) then runs to the end of that line, where $ holds.
LabelMatchAt(s, p, least) ==
    LET w  == SpaceRun(s, p + 1)
        ks == {k \in least..w : p + 1 + k <= Len(s) /\ s[p + 1 + k] # NL}
    IN  IF ks = {} THEN NoMatch
        ELSE LET k == CHOOSE k \in ks : \A j \in ks : j <= k
                 q == p + 1 + k
             IN  [found |-> TRUE, start |-> p, group |-> q, end |-> LineEnd(s, q)]

\* re.search(author_pattern / email_pattern, s, re.MULTILINE): leftmost match
LabelSearch(s, label) ==
    LET ps == {p \in 1..Len(s) : s[p] = label /\ LabelMatchAt(s, p, 0).found}
    IN  IF ps = {} THEN NoMatch
        ELSE LabelMatchAt(s, CHOOSE p \in ps : \A r \in ps : p <= r, 0)

\* match.group(1).strip() if match else ""
GroupOrEmpty(s, m) == IF m.found THEN Strip(SubSeq(s, m.group, m.end - 1)) ELSE <<>>

\* RemoveFirst deleting group 1 only, the label left in place
RemoveFirst_GroupOnly(s, label) ==
    LET m == LabelSearch(s, label)
    IN  IF m.found THEN SubSeq(s, 1, m.group - 1) \o SubSeq(s, m.end, Len(s)) ELSE s

\* re.sub(pattern, '', s, count=1, flags=re.MULTILINE)
RemoveFirst(s, label) ==
    LET m == LabelSearch(s, label)
    IN  IF m.found THEN SubSeq(s, 1, m.start - 1) \o SubSeq(s, m.end, Len(s)) ELSE s

\* re.search(r'^#\s+(.+)$', s, re.MULTILINE)
TitleSearch(s) ==
    LET ps == {p \in 1..Len(s) : /\ s[p] = "#"
                                 /\ (p = 1 \/ s[p - 1] = NL)
                                 /\ LabelMatchAt(s, p, 1).found}
    IN  IF ps = {} THEN NoMatch
        ELSE LabelMatchAt(s, CHOOSE p \in ps : \A r \in ps : p <= r, 1)

\* first position >= p holding "#", or Len(s) + 1: where ([^#]+) stops
RECURSIVE HashEnd(_, _)
HashEnd(s, p) == IF p > Len(s) \/ s[p] = "#" THEN p ELSE HashEnd(s, p + 1)

\* re.search(r'##\s*Abstract\s*\n+([^#]+)', s): the group of the leftmost
\* match, stripped.  After "Abstract" the blanks must hold a newline that is
\* followed by a character other than "#"; the group then runs to the next
\* "#", and where in the blanks it starts does not change its stripped text.
AbstractOf(s) ==
    LET after(p) == p + 2 + SpaceRun(s, p + 2)      \* position of "Abstract"
        ok(p) == /\ p + 1 <= Len(s) /\ s[p] = "#" /\ s[p + 1] = "#"
                 /\ after(p) <= Len(s) /\ s[after(p)] = "Abstract"
                 /\ \E j \in (after(p) + 1)..(after(p) + SpaceRun(s, after(p) + 1)) :
                        s[j] = NL /\ j + 1 <= Len(s) /\ s[j + 1] # "#"
        ps == {p \in 1..Len(s) : ok(p)}
    IN  IF ps = {} THEN <<>>
        ELSE LET p == CHOOSE p \in ps : \A r \in ps : p <= r
                 a == after(p)
                 j == CHOOSE j \in (a + 1)..(a + SpaceRun(s, a + 1)) :
                          s[j] = NL /\ j + 1 <= Len(s) /\ s[j + 1] # "#"
             IN  Strip(SubSeq(s, j + 1, HashEnd(s, j + 1) - 1))

\* clean_content: the author match is removed when author is non-empty, then
\* the email match when email (read from the original content) is non-empty
CleanContent(c, author, email) ==
    LET c1 == IF author # <<>> THEN RemoveFirst(c, AUTHOR) ELSE c
    IN  IF email # <<>> THEN RemoveFirst(c1, EMAIL) ELSE c1

extract_document_info(c) ==
    LET tm     == TitleSearch(c)
        author == GroupOrEmpty(c, LabelSearch(c, AUTHOR))
        email  == GroupOrEmpty(c, LabelSearch(c, EMAIL))
    IN  [title |-> IF tm.found THEN GroupOrEmpty(c, tm) ELSE <<"Document">>,
         author |-> author,
         email |-> email,
         abstract |-> AbstractOf(c),
         clean_content |-> CleanContent(c, author, email)]

----------------------------------------------------------------------------
(* extract_mermaid_diagrams *)

\* re.match of r"FENCE mermaid\n(.*?)\n FENCE" (re.DOTALL) at s[p]: the
\* lazy group ends at the first newline that a fence follows
MermaidCloses(s, p) ==
    {j \in (p + 3)..(Len(s) - 1) : s[j] = NL /\ s[j + 1] = FENCE}

NoDiagram == [found |-> FALSE, start |-> 0, group |-> 0, end |-> 0, close |-> 0]

MermaidMatchAt(s, p) ==
    IF /\ p + 2 <= Len(s)
       /\ s[p] = FENCE /\ s[p + 1] = "mermaid" /\ s[p + 2] = NL
       /\ MermaidCloses(s, p) # {}
    THEN LET j == CHOOSE j \in MermaidCloses(s, p) : \A k \in MermaidCloses(s, p) : j <= k
         IN  [found |-> TRUE, start |-> p, group |-> p + 3, end |-> j + 2, close |-> j]
    ELSE NoDiagram

\* the next match re.sub finds at or after s[p]
MermaidSearch(s, p) ==
    LET ps == {q \in p..Len(s) : MermaidMatchAt(s, q).found}
    IN  IF ps = {} THEN NoDiagram
        ELSE MermaidMatchAt(s, CHOOSE q \in ps : \A r \in ps : q <= r)

\* f"diagram_{len(diagrams)}"
DiagramId(n) == "diagram_" \o ToString(n)

\* the markup replace_diagram returns for output_format 'html', one token a line
Placeholder(id, n, ext) ==
    << NL, "<div style=\"text-align:center;\">",
       NL, "  <img src=\"" \o id \o "." \o ext \o "\" alt=\"" \o id
               \o "\" style=\"max-width:80%;\">",
       NL, "  <p>Diagram " \o ToString(n) \o "</p>",
       NL, "</div>",
       NL >>

\* re.sub(pattern, replace_diagram, s, flags=re.DOTALL) from s[p] on, with the
\* diagrams collected so far: the rest of new_content and the final diagrams
RECURSIVE MermaidSub(_, _, _, _)
MermaidSub(s, p, ds, ext) ==
    LET m == MermaidSearch(s, p)
    IN  IF ~m.found THEN [text |-> SubSeq(s, p, Len(s)), diagrams |-> ds]
        ELSE LET id == DiagramId(Len(ds))
                 r  == MermaidSub(s, m.end,
                           Append(ds, [id |-> id,
                                       source |-> SubSeq(s, m.group, m.close - 1)]),
                           ext)
             IN  [text |-> SubSeq(s, p, m.start - 1)
                              \o Placeholder(id, Len(ds), ext) \o r.text,
                  diagrams |-> r.diagrams]

extract_mermaid_diagrams(c, ext) ==
    LET r == MermaidSub(c, 1, <<>>, ext)
    IN  [new_content |-> r.text, diagrams |-> r.diagrams]

\* process_code_blocks(content, 'html') returns content
process_code_blocks(c) == c

----------------------------------------------------------------------------
(* Values of the variables a specification does not use. *)

NoInfo == [title |-> <<>>, author |-> <<>>, email |-> <<>>, abstract |-> <<>>,
           clean_content |-> <<>>]

LoopIdle == lines = <<>> /\ in_code_block = FALSE /\ processed_lines = <<>> /\ result = <<>>
MermaidIdle == diagrams = <<>> /\ new_content = <<>> /\ pos = 1
InfoIdle == info = NoInfo /\ info2 = NoInfo
OrchIdle ==
    /\ diagram_width = DEFAULT_DIAGRAM_WIDTH
    /\ diagram_height = DEFAULT_DIAGRAM_HEIGHT
    /\ idx = 1
    /\ calls = <<>>
    /\ logs = <<>>
    /\ temp_dir = FALSE
    /\ files = {}
    /\ pdf = FALSE
    /\ exit_code = <<>>

----------------------------------------------------------------------------
(* normalize_lists, one action per statement of its loop *)

ListTokens == {":", " ", "1", ".", "#", NL}

InitLists ==
    /\ pc = "normalize_lists"
    /\ content \in SeqsUpTo(ListTokens, MaxListLen)
    /\ arabic_font_size = None
    /\ image_ext = "svg"
    /\ LoopIdle /\ MermaidIdle /\ InfoIdle /\ OrchIdle

ListsSplit ==
    /\ pc = "normalize_lists"
    /\ lines' = Split(content)
    /\ processed_lines' = <<>>
    /\ pc' = "lists_loop"
    /\ UNCHANGED <<content, arabic_font_size, in_code_block, result,
                   mermaidVars, infoVars, orchVars>>

ListsLine ==
    /\ pc = "lists_loop"
    /\ Len(processed_lines) < Len(lines)
    /\ processed_lines' =
           Append(processed_lines, NormalizeLine(lines[Len(processed_lines) + 1]))
    /\ UNCHANGED <<pc, content, arabic_font_size, lines, in_code_block, result,
                   mermaidVars, infoVars, orchVars>>

ListsReturn ==
    /\ pc = "lists_loop"
    /\ Len(processed_lines) = Len(lines)
    /\ result' = Join(processed_lines)
    /\ pc' = "lists_done"
    /\ UNCHANGED <<content, arabic_font_size, lines, in_code_block, processed_lines,
                   mermaidVars, infoVars, orchVars>>

NextLists == ListsSplit \/ ListsLine \/ ListsReturn

SpecLists == InitLists /\ [][NextLists]_vars

----------------------------------------------------------------------------
(* process_arabic_text, one action per statement of its loop *)

ArabicTokens == {"ar", " ", "x", FENCE, NL}
FontSizes == {None, <<0>>, <<12>>}

InitArabic ==
    /\ pc = "process_arabic_text"
    /\ content \in SeqsUpTo(ArabicTokens, MaxArabicLen)
    /\ arabic_font_size \in FontSizes
    /\ image_ext = "svg"
    /\ LoopIdle /\ MermaidIdle /\ InfoIdle /\ OrchIdle

ArabicNoop ==
    /\ pc = "process_arabic_text"
    /\ Falsy(arabic_font_size)
    /\ result' = content
    /\ pc' = "arabic_done"
    /\ UNCHANGED <<content, arabic_font_size, lines, in_code_block, processed_lines,
                   mermaidVars, infoVars, orchVars>>

ArabicSplit ==
    /\ pc = "process_arabic_text"
    /\ ~Falsy(arabic_font_size)
    /\ lines' = Split(content)
    /\ in_code_block' = FALSE
    /\ processed_lines' = <<>>
    /\ pc' = "arabic_loop"
    /\ UNCHANGED <<content, arabic_font_size, result, mermaidVars, infoVars, orchVars>>

ArabicLineStep ==
    /\ pc = "arabic_loop"
    /\ Len(processed_lines) < Len(lines)
    /\ LET r == ArabicLine(in_code_block, lines[Len(processed_lines) + 1],
                           arabic_font_size)
       IN  /\ in_code_block' = r.flag
           /\ processed_lines' = Append(processed_lines, r.out)
    /\ UNCHANGED <<pc, content, arabic_font_size, lines, result,
                   mermaidVars, infoVars, orchVars>>

ArabicReturn ==
    /\ pc = "arabic_loop"
    /\ Len(processed_lines) = Len(lines)
    /\ result' = Join(processed_lines)
    /\ pc' = "arabic_done"
    /\ UNCHANGED <<content, arabic_font_size, lines, in_code_block, processed_lines,
                   mermaidVars, infoVars, orchVars>>

NextArabic == ArabicNoop \/ ArabicSplit \/ ArabicLineStep \/ ArabicReturn

SpecArabic == InitArabic /\ [][NextArabic]_vars

----------------------------------------------------------------------------
(* extract_document_info, called on a document and again on its clean_content *)

InfoTokens == {AUTHOR, EMAIL, NL, " ", "x"}

InitInfo ==
    /\ pc = "extract_document_info"
    /\ content \in SeqsUpTo(InfoTokens, MaxInfoLen)
    /\ arabic_font_size = None
    /\ image_ext = "svg"
    /\ LoopIdle /\ MermaidIdle /\ InfoIdle /\ OrchIdle

InfoCall ==
    /\ pc = "extract_document_info"
    /\ info' = extract_document_info(content)
    /\ pc' = "info_once"
    /\ UNCHANGED <<textVars, mermaidVars, info2, orchVars>>

InfoCallAgain ==
    /\ pc = "info_once"
    /\ info2' = extract_document_info(info.clean_content)
    /\ pc' = "info_twice"
    /\ UNCHANGED <<textVars, mermaidVars, info, orchVars>>

NextInfo == InfoCall \/ InfoCallAgain

SpecInfo == InitInfo /\ [][NextInfo]_vars

----------------------------------------------------------------------------
(* extract_mermaid_diagrams, one action per call of replace_diagram *)

MermaidTokens == {FENCE, "mermaid", NL, "x"}
ImageExts == {"svg", "png"}

InitMermaid ==
    /\ pc = "extract_mermaid_diagrams"
    /\ content \in SeqsUpTo(MermaidTokens, MaxMermaidLen)
    /\ image_ext \in ImageExts
    /\ arabic_font_size = None
    /\ LoopIdle /\ MermaidIdle /\ InfoIdle /\ OrchIdle

\* re.sub finds the next match and calls replace_diagram on it
MermaidReplace ==
    /\ pc = "extract_mermaid_diagrams"
    /\ LET m  == MermaidSearch(content, pos)
           id == DiagramId(Len(diagrams))
       IN  /\ m.found
           /\ diagrams' = Append(diagrams,
                  [id |-> id, source |-> SubSeq(content, m.group, m.close - 1)])
           /\ new_content' = new_content \o SubSeq(content, pos, m.start - 1)
                                 \o Placeholder(id, Len(diagrams), image_ext)
           /\ pos' = m.end
    /\ UNCHANGED <<pc, textVars, image_ext, infoVars, orchVars>>

\* no further match: re.sub copies the rest and the function returns
MermaidReturn ==
    /\ pc = "extract_mermaid_diagrams"
    /\ ~MermaidSearch(content, pos).found
    /\ new_content' = new_content \o SubSeq(content, pos, Len(content))
    /\ result' = [new_content |-> new_content', diagrams |-> diagrams]
    /\ pc' = "mermaid_done"
    /\ UNCHANGED <<content, arabic_font_size, lines, in_code_block, processed_lines,
                   image_ext, diagrams, pos, infoVars, orchVars>>

NextMermaid == MermaidReplace \/ MermaidReturn

SpecMermaid == InitMermaid /\ [][NextMermaid]_vars

----------------------------------------------------------------------------
(* main, convert_to_pdf_mathjax and render_mermaid_diagram *)

\* the documents the conversion is run on: up to MaxBlocks blocks, one a line
DiagramBlock == <<FENCE, "mermaid", NL, "x", NL, FENCE>>
AuthorBlock == <<AUTHOR, " ", "x">>
ListBlock == <<"ar", ":", " ", "1", ".", " ", "x">>
Blocks == {DiagramBlock, AuthorBlock, ListBlock}
Documents == {Join(bs) : bs \in SeqsUpTo(Blocks, MaxBlocks)}

\* how a subprocess.run(..., check=True) ends: exit status zero, a non-zero
\* exit status (CalledProcessError), or the program cannot be started (OSError)
Outcomes == {"exit0", "nonzero", "oserror"}

TempMd == [dir |-> "temp_dir", name |-> "processed.md"]
TempHtmlRaw == [dir |-> "temp_dir", name |-> "output_raw.html"]
TempHtml == [dir |-> "temp_dir", name |-> "output.html"]
OutputImg(id, ext) == [dir |-> "temp_dir", name |-> id \o "." \o ext]
\* tempfile.NamedTemporaryFile(suffix='.mmd', delete=False): in the system's
\* temporary directory, not in temp_dir
TempMmd == [dir |-> "system_tmp", name |-> "tmp.mmd"]

\* TemporaryDirectory.__exit__: the directory goes with all it holds
Cleanup(fs) == {f \in fs : f.dir # "temp_dir"}

Init ==
    /\ pc = "main"
    /\ content \in Documents
    /\ arabic_font_size \in {None, <<0 - 1>>, <<0>>, <<12>>}
    /\ image_ext \in ImageExts
    /\ diagram_width \in {0, DEFAULT_DIAGRAM_WIDTH}
    /\ diagram_height \in {0 - 1, DEFAULT_DIAGRAM_HEIGHT}
    /\ idx = 1
    /\ calls = <<>>
    /\ logs = <<>>
    /\ temp_dir = FALSE
    /\ files = {}
    /\ pdf = FALSE
    /\ exit_code = <<>>
    /\ LoopIdle /\ MermaidIdle /\ InfoIdle

\* main: the two checks of the flags, then the call of convert_to_pdf_mathjax
MainValidate ==
    /\ pc = "main"
    /\ IF ~Falsy(arabic_font_size) /\ arabic_font_size[1] <= 0
       THEN /\ logs' = Append(logs, "Arabic font size must be a positive integer")
            /\ exit_code' = <<1>>
            /\ pc' = "exited"
       ELSE IF diagram_width <= 0 \/ diagram_height <= 0
       THEN /\ logs' = Append(logs, "Diagram width and height must be positive integers")
            /\ exit_code' = <<1>>
            /\ pc' = "exited"
       ELSE /\ pc' = "convert"
            /\ UNCHANGED <<logs, exit_code>>
    /\ UNCHANGED <<textVars, mermaidVars, infoVars, diagram_width, diagram_height,
                   idx, calls, temp_dir, files, pdf>>

\* open(markdown_file) raises: the exception leaves convert_to_pdf_mathjax
ConvertOpenFails ==
    /\ pc = "convert"
    /\ pc' = "raised"
    /\ UNCHANGED <<textVars, mermaidVars, infoVars, orchVars>>

\* the file is read and the four transforms run in their fixed order
ConvertPreprocess ==
    /\ pc = "convert"
    /\ LET doc_info == extract_document_info(content)
           c1 == normalize_lists(doc_info.clean_content)
           c2 == process_arabic_text(c1, arabic_font_size)
           ex == extract_mermaid_diagrams(c2, image_ext)
       IN  /\ info' = doc_info
           /\ content' = process_code_blocks(ex.new_content)
           /\ diagrams' = ex.diagrams
    /\ pc' = "mktemp"
    /\ UNCHANGED <<arabic_font_size, lines, in_code_block, processed_lines, result,
                   image_ext, new_content, pos, info2, orchVars>>

\* with tempfile.TemporaryDirectory() as temp_dir: processed.md is written
ConvertEnterTempDir ==
    /\ pc = "mktemp"
    /\ temp_dir' = TRUE
    /\ files' = files \cup {TempMd}
    /\ idx' = 1
    /\ pc' = "render"
    /\ UNCHANGED <<textVars, mermaidVars, infoVars, diagram_width, diagram_height,
                   calls, logs, pdf, exit_code>>

\* render_mermaid_diagram up to its try: the diagram source is written to a
\* temporary .mmd file
RenderWriteMmd ==
    /\ pc = "render"
    /\ idx <= Len(diagrams)
    /\ files' = files \cup {TempMmd}
    /\ pc' = "mmdc"
    /\ UNCHANGED <<textVars, mermaidVars, infoVars, diagram_width, diagram_height,
                   idx, calls, logs, temp_dir, pdf, exit_code>>

\* RenderRunMmdc without the except of the render loop: a failed render leaves
\* convert_to_pdf_mathjax as an exception
RenderRunMmdc_NoCatch ==
    /\ pc = "mmdc"
    /\ \E o \in Outcomes :
           /\ calls' = Append(calls, [tool |-> "mmdc", arg |-> diagrams[idx].id, outcome |-> o])
           /\ IF o = "exit0"
              THEN /\ files' = (files \ {TempMmd}) \cup {OutputImg(diagrams[idx].id, image_ext)}
                   /\ idx' = idx + 1
                   /\ pc' = "render"
                   /\ UNCHANGED <<logs, temp_dir>>
              ELSE /\ files' = Cleanup(files \ {TempMmd})
                   /\ logs' = Append(logs, "Error rendering diagram")
                   /\ temp_dir' = FALSE
                   /\ pc' = "raised"
                   /\ UNCHANGED idx
    /\ UNCHANGED <<textVars, mermaidVars, infoVars, diagram_width, diagram_height,
                   pdf, exit_code>>

\* RenderRunMmdc with os.unlink after subprocess.run instead of in finally
RenderRunMmdc_NoFinally ==
    /\ pc = "mmdc"
    /\ \E o \in Outcomes :
           /\ calls' = Append(calls, [tool |-> "mmdc", arg |-> diagrams[idx].id, outcome |-> o])
           /\ files' = IF o = "exit0"
                       THEN (files \ {TempMmd}) \cup {OutputImg(diagrams[idx].id, image_ext)}
                       ELSE files
           /\ logs' = logs \o
                  CASE o = "exit0" -> <<>>
                    [] o = "nonzero" -> <<"Error rendering diagram",
                                          "Failed to render diagram " \o diagrams[idx].id>>
                    [] o = "oserror" -> <<"Failed to render diagram " \o diagrams[idx].id>>
    /\ idx' = idx + 1
    /\ pc' = "render"
    /\ UNCHANGED <<textVars, mermaidVars, infoVars, diagram_width, diagram_height,
                   temp_dir, pdf, exit_code>>

\* the rest of render_mermaid_diagram and the except of the render loop: mmdc
\* runs; finally the .mmd file is unlinked; a failure is logged by the caller
\* and the loop goes on
RenderRunMmdc ==
    /\ pc = "mmdc"
    /\ \E o \in Outcomes :
           /\ calls' = Append(calls, [tool |-> "mmdc", arg |-> diagrams[idx].id, outcome |-> o])
           /\ files' = (files \ {TempMmd}) \cup
                  (IF o = "exit0" THEN {OutputImg(diagrams[idx].id, image_ext)} ELSE {})
           /\ logs' = logs \o
                  CASE o = "exit0" -> <<>>
                    [] o = "nonzero" -> <<"Error rendering diagram",
                                          "Failed to render diagram " \o diagrams[idx].id>>
                    [] o = "oserror" -> <<"Failed to render diagram " \o diagrams[idx].id>>
    /\ idx' = idx + 1
    /\ pc' = "render"
    /\ UNCHANGED <<textVars, mermaidVars, infoVars, diagram_width, diagram_height,
                   temp_dir, pdf, exit_code>>

\* RunPandoc with check=True left out: the exit status is not looked at
RunPandoc_NoCheck ==
    /\ pc = "render"
    /\ idx > Len(diagrams)
    /\ \E o \in Outcomes :
           /\ calls' = Append(calls, [tool |-> "pandoc", arg |-> "processed.md", outcome |-> o])
           /\ IF o # "oserror"
              THEN /\ files' = files \cup {TempHtmlRaw}
                   /\ pc' = "inject"
                   /\ UNCHANGED <<logs, temp_dir>>
              ELSE /\ files' = Cleanup(files)
                   /\ temp_dir' = FALSE
                   /\ pc' = "raised"
                   /\ UNCHANGED logs
    /\ UNCHANGED <<textVars, mermaidVars, infoVars, diagram_width, diagram_height,
                   idx, pdf, exit_code>>

\* after the render loop: pandoc runs; a non-zero exit is logged and raised as
\* RuntimeError, and the exception leaves the with block, which removes temp_dir
RunPandoc ==
    /\ pc = "render"
    /\ idx > Len(diagrams)
    /\ \E o \in Outcomes :
           /\ calls' = Append(calls, [tool |-> "pandoc", arg |-> "processed.md", outcome |-> o])
           /\ IF o = "exit0"
              THEN /\ files' = files \cup {TempHtmlRaw}
                   /\ pc' = "inject"
                   /\ UNCHANGED <<logs, temp_dir>>
              ELSE /\ files' = Cleanup(files)
                   /\ logs' = IF o = "nonzero" THEN Append(logs, "HTML conversion failed")
                              ELSE logs
                   /\ temp_dir' = FALSE
                   /\ pc' = "raised"
    /\ UNCHANGED <<textVars, mermaidVars, infoVars, diagram_width, diagram_height,
                   idx, pdf, exit_code>>

\* output_raw.html is read and output.html written with TABLE_CSS before </head>
InjectCss ==
    /\ pc = "inject"
    /\ files' = files \cup {TempHtml}
    /\ pc' = "chrome"
    /\ UNCHANGED <<textVars, mermaidVars, infoVars, diagram_width, diagram_height,
                   idx, calls, logs, temp_dir, pdf, exit_code>>

\* headless Chrome runs: on exit status zero the PDF is there and the function
\* returns; otherwise the error is logged and raised (what a failed Chrome has
\* written is not known).  Either way the with block removes temp_dir.
RunChrome ==
    /\ pc = "chrome"
    /\ \E o \in Outcomes :
           /\ calls' = Append(calls, [tool |-> "chrome", arg |-> "output.html", outcome |-> o])
           /\ IF o = "exit0"
              THEN /\ pdf' = TRUE
                   /\ pc' = "returned"
                   /\ UNCHANGED logs
              ELSE /\ pdf' \in BOOLEAN
                   /\ logs' = IF o = "nonzero"
                              THEN logs \o <<"Chrome PDF conversion failed", "Failed command">>
                              ELSE logs
                   /\ pc' = "raised"
    /\ files' = Cleanup(files)
    /\ temp_dir' = FALSE
    /\ UNCHANGED <<textVars, mermaidVars, infoVars, diagram_width, diagram_height,
                   idx, exit_code>>

\* main after a normal return of convert_to_pdf_mathjax: exit status 0
MainReturn ==
    /\ pc = "returned"
    /\ exit_code' = <<0>>
    /\ pc' = "exited"
    /\ UNCHANGED <<textVars, mermaidVars, infoVars, diagram_width, diagram_height,
                   idx, calls, logs, temp_dir, files, pdf>>

\* main's except Exception: the error is logged and sys.exit(1)
MainExcept ==
    /\ pc = "raised"
    /\ logs' = Append(logs, "Error")
    /\ exit_code' = <<1>>
    /\ pc' = "exited"
    /\ UNCHANGED <<textVars, mermaidVars, infoVars, diagram_width, diagram_height,
                   idx, calls, temp_dir, files, pdf>>

Next ==
    \/ MainValidate
    \/ ConvertOpenFails
    \/ ConvertPreprocess
    \/ ConvertEnterTempDir
    \/ RenderWriteMmd
    \/ RenderRunMmdc
    \/ RunPandoc
    \/ InjectCss
    \/ RunChrome
    \/ MainReturn
    \/ MainExcept

Spec == Init /\ [][Next]_vars

----------------------------------------------------------------------------
(* Vocabulary of the properties, stated without the operators above. *)

\* the first token of the line that is not a blank is t
TrimmedBeginsWith(line, t) ==
    \E k \in 1..Len(line) : line[k] = t /\ \A j \in 1..(k - 1) : line[j] \in {" ", NL}

Count(s, t) == Cardinality({k \in 1..Len(s) : s[k] = t})

\* a is b with some elements left out
RECURSIVE IsSubseq(_, _)
IsSubseq(a, b) ==
    IF a = <<>> THEN TRUE
    ELSE IF b = <<>> THEN FALSE
    ELSE IF Head(a) = Head(b) THEN IsSubseq(Tail(a), Tail(b))
    ELSE IsSubseq(a, Tail(b))

\* number of newline-separated lines the first n entries of ls print as
RECURSIVE PrintedLines(_, _)
PrintedLines(ls, n) ==
    IF n = 0 THEN 0 ELSE PrintedLines(ls, n - 1) + Count(ls[n], NL) + 1

----------------------------------------------------------------------------
(* C10 *)

\* C10: normalize_lists emits every line whose trimmed content starts with
\* '#' verbatim, at the place its input position gives it among the output
\* lines, also when it holds a colon followed by a numbered-item marker; only
\* lines that are not headings gain a paragraph break.
C10_HeadingsVerbatim ==
    pc \in {"lists_loop", "lists_done"} =>
        /\ lines = Split(content)
        /\ \A i \in 1..Len(processed_lines) :
               /\ TrimmedBeginsWith(lines[i], "#") => processed_lines[i] = lines[i]
               /\ processed_lines[i] # lines[i] => ~TrimmedBeginsWith(lines[i], "#")
        /\ pc = "lists_done" =>
               /\ Len(processed_lines) = Len(lines)
               /\ \A i \in 1..Len(lines) :
                      TrimmedBeginsWith(lines[i], "#") =>
                          Split(result)[PrintedLines(processed_lines, i - 1) + 1] = lines[i]

\* a heading that holds ': 1. ' was passed through, after a line that grew
C10_Witness ==
    /\ pc = "lists_done"
    /\ \E i \in 1..Len(lines) :
           /\ TrimmedBeginsWith(lines[i], "#")
           /\ \E k \in 1..(Len(lines[i]) - 3) :
                  /\ lines[i][k] = ":" /\ lines[i][k + 1] = "1"
                  /\ lines[i][k + 2] = "." /\ lines[i][k + 3] = " "
           /\ Split(result)[PrintedLines(processed_lines, i - 1) + 1] = lines[i]

\* a line other than a heading gained its paragraph break
C10_WitnessBreak ==
    /\ pc = "lists_done"
    /\ \E i \in 1..Len(lines) : Count(processed_lines[i], NL) = 2

----------------------------------------------------------------------------
(* C8, C9 *)

\* number of fence lines among the first n lines
FenceLinesBefore(ls, n) ==
    Cardinality({i \in 1..n : TrimmedBeginsWith(ls[i], FENCE)})

\* line i lies after an odd number of fence lines: inside a fenced code block
InsideFence(ls, i) == FenceLinesBefore(ls, i - 1) % 2 = 1

\* C8: with a font size given, the fence flag starts false and is toggled
\* exactly on the lines whose trimmed content begins with three backticks;
\* every fence line and every line scanned while the flag is true is emitted
\* unchanged, so nothing between an opening fence and its closing fence is
\* wrapped.
C8_FencedLinesUntouched ==
    pc \in {"arabic_loop", "arabic_done"} /\ arabic_font_size \notin {None, <<0>>} =>
        /\ lines = Split(content)
        /\ in_code_block = (FenceLinesBefore(lines, Len(processed_lines)) % 2 = 1)
        /\ \A i \in 1..Len(processed_lines) :
               TrimmedBeginsWith(lines[i], FENCE) \/ InsideFence(lines, i) =>
                   processed_lines[i] = lines[i]
        /\ pc = "arabic_done" =>
               /\ Len(processed_lines) = Len(lines)
               /\ result = Join(processed_lines)

\* an Arabic character inside a fenced block came out unwrapped, while one
\* outside the block was wrapped
C8_Witness ==
    /\ pc = "arabic_done"
    /\ arabic_font_size = <<12>>
    /\ \E i \in 1..Len(lines) :
           /\ InsideFence(lines, i)
           /\ ~TrimmedBeginsWith(lines[i], FENCE)
           /\ Count(lines[i], "ar") > 0
           /\ processed_lines[i] = lines[i]
    /\ \E i \in 1..Len(lines) : processed_lines[i] # lines[i]

\* C9: process_arabic_text returns its input unchanged when the font size is
\* None or zero.
C9_NoFontSizeNoop ==
    pc = "arabic_done" /\ arabic_font_size \in {None, <<0>>} => result = content

\* the font size is zero and the input holds Arabic text outside any fence
C9_Witness ==
    /\ pc = "arabic_done"
    /\ arabic_font_size = <<0>>
    /\ Count(content, "ar") > 0
    /\ Count(content, FENCE) = 0
    /\ result = content

\* ... and the font size None
C9_WitnessNone ==
    /\ pc = "arabic_done"
    /\ arabic_font_size = None
    /\ Count(content, "ar") > 0
    /\ result = content

----------------------------------------------------------------------------
(* C6, C7 *)

HasLabel(line) == Count(line, AUTHOR) + Count(line, EMAIL) > 0

\* the lines of s that hold neither label, in order
LabelFreeLines(s) == SelectSeq(Split(s), LAMBDA l : ~HasLabel(l))

\* C6: clean_content is the input less at most one author line and at most
\* one email line; every other line, also the line after a label that has no
\* text behind it, is in clean_content unchanged and in the same order.
C6_OtherLinesKept ==
    pc \in {"info_once", "info_twice"} =>
        IsSubseq(LabelFreeLines(content), Split(info.clean_content))

\* C7: a second extraction on clean_content leaves it as it is.
C7_Idempotent ==
    pc = "info_twice" => info2.clean_content = info.clean_content

\* C7 as amended: a second extraction on clean_content leaves it as it is for
\* every document that holds at most one **Author**: label and at most one
\* **Email**: label.
C7_IdempotentSingleLabels ==
    pc = "info_twice" /\ Count(content, AUTHOR) <= 1 /\ Count(content, EMAIL) <= 1 =>
        info2.clean_content = info.clean_content

\* one author line and one email line were stripped by the first extraction
C7_Witness ==
    /\ pc = "info_twice"
    /\ Count(content, AUTHOR) = 1 /\ Count(content, EMAIL) = 1
    /\ info.author # <<>> /\ info.email # <<>>
    /\ Count(info.author, EMAIL) = 0 /\ Count(info.email, AUTHOR) = 0
    /\ Count(info.clean_content, AUTHOR) = 0 /\ Count(info.clean_content, EMAIL) = 0
    /\ info2.clean_content = info.clean_content

----------------------------------------------------------------------------
(* C1 *)

\* index of the first fence line of ls after line i, or 0
NextFenceLine(ls, i) ==
    LET js == {j \in (i + 1)..Len(ls) : TrimmedBeginsWith(ls[j], FENCE)}
    IN  IF js = {} THEN 0 ELSE CHOOSE j \in js : \A k \in js : j <= k

\* the bodies of the fenced blocks of ls, from line i on, whose opening fence
\* is tagged mermaid: a block runs from a fence line to the next fence line
RECURSIVE DiagramBodies(_, _)
DiagramBodies(ls, i) ==
    LET open == NextFenceLine(ls, i)
        close == IF open = 0 THEN 0 ELSE NextFenceLine(ls, open)
    IN  IF close = 0 THEN <<>>
        ELSE (IF ls[open] = <<FENCE, "mermaid">>
              THEN <<Join(SubSeq(ls, open + 1, close - 1))>>
              ELSE <<>>) \o DiagramBodies(ls, close)

\* the <img> tokens of a text, in order
ImgTokens(s) ==
    SelectSeq(s, LAMBDA t : \E n \in 0..Len(s), e \in ImageExts :
                                t = Placeholder(DiagramId(n), n, e)[4])

\* C1: for a document with K fenced blocks tagged as diagrams the function
\* returns K entries diagram_0 .. diagram_{K-1} in the order of the blocks,
\* each with the body of its block, and the rewritten body holds K
\* placeholders, the i-th naming diagram_i with the requested extension.
C1_OneEntryPerBlock ==
    pc = "mermaid_done" =>
        LET bodies == DiagramBodies(Split(content), 0)
            K == Len(bodies)
        IN  /\ Len(result.diagrams) = K
            /\ \A i \in 1..K :
                   result.diagrams[i] =
                       [id |-> "diagram_" \o ToString(i - 1), source |-> bodies[i]]
            /\ ImgTokens(result.new_content) =
                   [i \in 1..K |->
                       Placeholder("diagram_" \o ToString(i - 1), i - 1, image_ext)[4]]

----------------------------------------------------------------------------
(* C2, C3, C4, C5 *)

CallsOf(tool) == SelectSeq(calls, LAMBDA c : c.tool = tool)
Logged(msg) == \E k \in 1..Len(logs) : logs[k] = msg
Ran(tool, o) == \E k \in 1..Len(calls) : calls[k].tool = tool /\ calls[k].outcome = o

\* C2: the diagram renderer is run once for each collected block, in list
\* order; a failed render is logged and skipped, the later blocks are still
\* rendered, and the HTML converter and then the PDF printer still run.
C2_EveryBlockRendered ==
    LET K == Len(diagrams)
    IN  /\ \A i \in 1..Len(CallsOf("mmdc")) :
               /\ i <= K
               /\ calls[i].tool = "mmdc"
               /\ calls[i].arg = diagrams[i].id
               /\ calls[i].outcome # "exit0" =>
                      Logged("Failed to render diagram " \o diagrams[i].id)
        /\ pc \in {"render", "mmdc"} => Len(calls) = idx - 1
        /\ pc \in {"inject", "chrome", "returned"}
             \/ (pc \in {"raised", "exited"} /\ calls # <<>>) =>
               /\ Len(CallsOf("mmdc")) = K
               /\ Len(calls) > K
               /\ calls[K + 1].tool = "pandoc"
               /\ calls[K + 1].outcome = "exit0" /\ pc \notin {"inject", "chrome"} =>
                      Len(calls) = K + 2 /\ calls[K + 2].tool = "chrome"

\* a render failed, a later block was still rendered, and the conversion
\* finished with exit status 0
C2_Witness ==
    /\ pc = "exited"
    /\ exit_code = <<0>>
    /\ Len(diagrams) >= 2
    /\ calls[1].tool = "mmdc" /\ calls[1].outcome = "nonzero"
    /\ calls[2].tool = "mmdc" /\ calls[2].outcome = "exit0"
    /\ Ran("pandoc", "exit0") /\ Ran("chrome", "exit0")

\* C3: a non-zero exit of the HTML converter or of the PDF printer ends the
\* conversion: the error reaches main, is logged, and the exit status is 1.
\* The PDF printer runs only after the HTML converter has exited with zero;
\* when the HTML converter fails nothing runs after it and no PDF is written.
\* The exit status is 0 only when both tools exited with zero.
C3_ToolFailureIsFatal ==
    /\ \A j \in 1..Len(calls) :
           calls[j].tool = "chrome" =>
               \E i \in 1..(j - 1) : calls[i].tool = "pandoc" /\ calls[i].outcome = "exit0"
    /\ Ran("pandoc", "nonzero") =>
           /\ calls[Len(calls)].tool = "pandoc"
           /\ ~pdf
           /\ pc \in {"raised", "exited"}
    /\ Ran("pandoc", "nonzero") \/ Ran("chrome", "nonzero") =>
           /\ pc \in {"raised", "exited"}
           /\ pc = "exited" => exit_code = <<1>> /\ logs[Len(logs)] = "Error"
    /\ exit_code = <<0>> => Ran("pandoc", "exit0") /\ Ran("chrome", "exit0")

\* the HTML converter exited non-zero and the process has exited with 1
C3_Witness ==
    /\ pc = "exited"
    /\ exit_code = <<1>>
    /\ Ran("pandoc", "nonzero")
    /\ Logged("HTML conversion failed")
    /\ ~pdf

\* the PDF printer exited non-zero and the process has exited with 1
C3_WitnessChrome ==
    /\ pc = "exited"
    /\ exit_code = <<1>>
    /\ Ran("chrome", "nonzero")

\* the flag is given and is zero or negative
NonPositive(a) == IF a = None THEN FALSE ELSE a[1] <= 0

\* C4: when the font size, the diagram width or the diagram height is given
\* as zero or a negative integer, main reports a validation error and exits
\* with status 1 before any external tool is run.
C4_NonPositiveFlagRejected ==
    NonPositive(arabic_font_size) \/ diagram_width <= 0 \/ diagram_height <= 0 =>
        /\ pc \in {"main", "exited"}
        /\ calls = <<>>
        /\ pc = "exited" => exit_code = <<1>> /\ logs # <<>>

\* the files a conversion writes on its way to the PDF
Intermediate(f) ==
    \/ f.name \in {"processed.md", "output_raw.html", "output.html"}
    \/ \E d \in 1..Len(diagrams), e \in ImageExts : f.name = diagrams[d].id \o "." \o e

\* C5: the processed Markdown, the diagram images and both HTML files are
\* created inside the conversion's temporary directory, which is gone once
\* convert_to_pdf_mathjax has returned or raised, whatever stage failed; the
\* .mmd file handed to the renderer is deleted after each render attempt.
C5_TemporaryFilesRemoved ==
    /\ \A f \in files : Intermediate(f) => f.dir = "temp_dir" /\ temp_dir
    /\ pc \in {"returned", "raised", "exited"} =>
           /\ ~temp_dir
           /\ \A f \in files : ~Intermediate(f) /\ f.dir # "temp_dir"
    /\ pc # "mmdc" => TempMmd \notin files
    /\ pc = "mmdc" => files = {TempMd, TempMmd} \cup
           {OutputImg(calls[i].arg, image_ext) :
                i \in {k \in 1..Len(calls) : calls[k].outcome = "exit0"}}
    /\ pc = "chrome" => {TempMd, TempHtmlRaw, TempHtml} \subseteq files

\* a render attempt failed and later the PDF printer failed: neither the .mmd
\* file nor anything of the temporary directory is left
C5_Witness ==
    /\ pc = "raised"
    /\ Ran("mmdc", "nonzero") /\ Ran("mmdc", "exit0") /\ Ran("chrome", "nonzero")
    /\ ~temp_dir
    /\ files = {}

============================================================================
